---- MODULE Spec2Model ----
(***************************************************************************)
(* Model of the document localisation code of src/image_processor.py:      *)
(* preprocess_image, crop_document_with_mask,                              *)
(* filter_overlapping_detections, extract_documents and                    *)
(* extract_single_document, and of extract_invoice_data and its call site  *)
(* in src/app.py.                                                          *)
(*                                                                         *)
(* Conventions.                                                            *)
(*  - Coordinates are integers in units of 1/Scale pixel, so that the      *)
(*    detector's fractional box coordinates and the int() truncation of    *)
(*    the code are both representable.                                     *)
(*  - Scores are integers in hundredths (90 is 0.90).                      *)
(*  - Ratios and thresholds are exact rationals <<num, den>>, den > 0.     *)
(*  - Python lists and arrays are sequences; Python index i is i + 1.      *)
(***************************************************************************)
EXTENDS Integers, Sequences, FiniteSets, TLC

VARIABLES
    tieRank,    \* the build's order among equal scores in np.argsort
    scene,      \* what the detector sees in the photograph
    last,       \* the last call of extract_documents / extract_single_document
    sup,        \* a call of filter_overlapping_detections
    enh,        \* a call of preprocess_image
    comp,       \* a call of crop_document_with_mask
    ext         \* a call of extract_invoice_data and its report to the user

vars == <<tieRank, scene, last, sup, enh, comp, ext>>

(***************************************************************************)
(* Bounds and input pools                                                  *)
(***************************************************************************)
\* Largest number of boxes given to filter_overlapping_detections on its own.
MaxDet == 3

\* Largest number of detections the detector returns for a scene.
MaxSceneDet == 2

\* Image sides 1..MaxSmallDim are tried for preprocess_image, with DimPool.
MaxSmallDim == 20

\* Mask values are k / MaskDen for k in 0..MaskDen.
MaskDen == 2

\* Sub-pixel resolution of coordinates: a coordinate c stands for c / Scale px.
Scale == 2

\* Boxes <<x1, y1, x2, y2>> in 1/Scale pixel; the ratios and pixel corners
\* noted are those on the 5 x 2 pixel Photo with Scale = 2.
BoxA == <<0, 0, 6, 4>>     \* area ratio 0.6
BoxB == <<2, 0, 8, 4>>     \* area ratio 0.6,   IoU with BoxA = 16/32 = 0.5
BoxC == <<3, 0, 10, 4>>    \* area ratio 0.7,   IoU with BoxA = 12/40 = 0.3
BoxE == <<0, 0, 8, 4>>     \* area ratio 0.8 exactly
BoxF == <<0, 0, 2, 2>>     \* area ratio 0.1 exactly, disjoint from BoxB, BoxC
BoxH == <<1, 1, 10, 4>>    \* area ratio 0.675, fractional corner (0.5, 0.5)

\* The boxes given to filter_overlapping_detections on its own.
BoxPool == {BoxA, BoxB, BoxC, BoxF, BoxH}

\* The regions of a scene.
SceneBoxPool == {BoxA, BoxB, BoxE, BoxF, BoxH}

ScorePool == {90, 85}

ThresholdPool == {<<3, 10>>, <<1, 2>>}

\* <<min_area_ratio, max_area_ratio>>; the first is the default of line 145-146.
WindowPool == {<<<<1, 50>>, <<4, 5>>>>, <<<<1, 10>>, <<7, 10>>>>}

\* The iou argument of extract_documents; 6/10 is the default of line 143.
IouPool == {<<6, 10>>, <<1, 10>>}

\* The confidence argument; 50 (0.5) is the default of line 142.
ConfidencePool == {50}

\* The photograph: 5 x 2 pixels, not yet enhanced.
Photo == [w |-> 5, h |-> 2, content |-> "raw"]

None == [none |-> TRUE]

Idle == [state |-> "idle"]

(***************************************************************************)
(* Helpers                                                                 *)
(***************************************************************************)
Max2(a, b) == IF a >= b THEN a ELSE b

Min2(a, b) == IF a <= b THEN a ELSE b

\* r > s for rationals with positive denominators
RatGT(r, s) == r[1] * s[2] > s[1] * r[2]

Range(s) == {s[i] : i \in DOMAIN s}

Reverse(s) == [i \in 1..Len(s) |-> s[Len(s) + 1 - i]]

Permutations1(n) == {p \in [1..n -> 1..n] : \A i, j \in 1..n : i # j => p[i] # p[j]}

(***************************************************************************)
(* filter_overlapping_detections                                           *)
(***************************************************************************)
\* np.argsort(confs): indices in ascending order of score.  The default sort
\* kind is not stable, so the order among equal scores is whatever the build
\* produces; tieRank is that order, fixed for a run.
RECURSIVE AscendingFrom(_, _)
AscendingFrom(confs, remaining) ==
    IF remaining = {} THEN <<>>
    ELSE LET m == CHOOSE i \in remaining : \A j \in remaining :
                     \/ confs[i] < confs[j]
                     \/ confs[i] = confs[j] /\ tieRank[i] <= tieRank[j]
         IN  <<m>> \o AscendingFrom(confs, remaining \ {m})

InitTie == tieRank \in Permutations1(MaxDet)

argsort(confs) == AscendingFrom(confs, DOMAIN confs)

\* sorted_indices = np.argsort(confs)[::-1]
sorted_indices(confs) == Reverse(argsort(confs))

\* The IoU of lines 117-127, <<0, 1>> when the boxes do not intersect.
IoU(box1, box2) ==
    LET x1 == Max2(box1[1], box2[1])
        y1 == Max2(box1[2], box2[2])
        x2 == Min2(box1[3], box2[3])
        y2 == Min2(box1[4], box2[4])
    IN  IF x2 > x1 /\ y2 > y1
        THEN LET inter == (x2 - x1) * (y2 - y1)
                 area1 == (box1[3] - box1[1]) * (box1[4] - box1[2])
                 area2 == (box2[3] - box2[1]) * (box2[4] - box2[2])
                 union == area1 + area2 - inter
             IN  IF union > 0 THEN <<inter, union>> ELSE <<0, 1>>
        ELSE <<0, 1>>

\* Lines 117-131: does the kept box suppress the candidate box?
SuppressesUnionMut(box1, box2, iou_threshold) ==
    LET x1 == Max2(box1[1], box2[1])
        y1 == Max2(box1[2], box2[2])
        x2 == Min2(box1[3], box2[3])
        y2 == Min2(box1[4], box2[4])
        area1 == (box1[3] - box1[1]) * (box1[4] - box1[2])
        area2 == (box2[3] - box2[1]) * (box2[4] - box2[2])
    IN  /\ x2 > x1
        /\ y2 > y1
        /\ RatGT(<<(x2 - x1) * (y2 - y1), area1 + area2>>, iou_threshold)

SuppressesMut(box1, box2, iou_threshold) ==
    LET x1 == Max2(box1[1], box2[1])
        y1 == Max2(box1[2], box2[2])
        x2 == Min2(box1[3], box2[3])
        y2 == Min2(box1[4], box2[4])
    IN  /\ x2 > x1
        /\ y2 > y1
        /\ ~RatGT(iou_threshold, IoU(box1, box2))

Suppresses(box1, box2, iou_threshold) ==
    LET x1 == Max2(box1[1], box2[1])
        y1 == Max2(box1[2], box2[2])
        x2 == Min2(box1[3], box2[3])
        y2 == Min2(box1[4], box2[4])
    IN  /\ x2 > x1
        /\ y2 > y1
        /\ RatGT(IoU(box1, box2), iou_threshold)

\* Lines 109-134: the loop over sorted_indices[1:], keep_indices so far in keep.
RECURSIVE KeepLoop(_, _, _, _, _)
KeepLoop(boxes, order, pos, keep, iou_threshold) ==
    IF pos > Len(order) THEN keep
    ELSE LET idx == order[pos]
             should_keep == \A k \in 1..Len(keep) :
                               ~Suppresses(boxes[idx], boxes[keep[k]], iou_threshold)
         IN  KeepLoop(boxes, order, pos + 1,
                      IF should_keep THEN Append(keep, idx) ELSE keep,
                      iou_threshold)

filter_overlapping_detections(boxes, confs, iou_threshold) ==
    IF Len(boxes) <= 1
    THEN [i \in 1..Len(boxes) |-> i]
    ELSE LET order == sorted_indices(confs)
         IN  KeepLoop(boxes, order, 2, <<order[1]>>, iou_threshold)

(***************************************************************************)
(* preprocess_image                                                        *)
(***************************************************************************)
RECURSIVE Pow2(_)
Pow2(n) == IF n = 0 THEN 1 ELSE 2 * Pow2(n - 1)

\* 2^k mod m, by repeated squaring (m < 2^15, so no product overflows)
RECURSIVE ModPow2(_, _)
ModPow2(k, m) ==
    IF k = 0 THEN 1 % m
    ELSE LET half == ModPow2(k \div 2, m)
         IN  IF k % 2 = 0 THEN (half * half) % m ELSE (2 * half * half) % m

\* floor(log2(n / d)) for n >= d
RECURSIVE FloorLog2From(_, _, _)
FloorLog2From(n, d, j) == IF n >= 2 * d * Pow2(j) THEN FloorLog2From(n, d, j + 1) ELSE j

\* the e with 2^e < f <= 2^(e+1): the binade of the doubles just below f
RECURSIVE BinadeBelowFrom(_, _)
BinadeBelowFrom(f, e) == IF Pow2(e + 1) < f THEN BinadeBelowFrom(f, e + 1) ELSE e

\* int(x * scale) of line 30 with scale = 1000 / m of line 29, m the shorter
\* dimension, in IEEE double arithmetic (round to nearest, ties to even) as
\* Python computes it.  scale is the double M * 2^-k nearest to 1000 / m,
\* k = 52 - floor(log2(1000 / m)); r is the remainder of 1000 * 2^k by m.  The
\* product x * scale falls below the integer 1000 * x / m exactly when scale
\* was rounded down by more than half a unit in the last place of the product.
ScaledDim(x, m) ==
    LET j     == FloorLog2From(1000, m, 0)
        k     == 52 - j
        r     == ((1000 % m) * ModPow2(k, m)) % m
        r2    == ((1000 % (2 * m)) * ModPow2(k, 2 * m)) % (2 * m)
        down  == r > 0 /\ (2 * r < m \/ (2 * r = m /\ r2 < m))
        f     == (1000 * x) \div m
        exact == (1000 * x) % m = 0
    IN  IF exact /\ down /\ 2 * x * r > m * Pow2(BinadeBelowFrom(f, 0) - j)
        THEN f - 1
        ELSE f

\* Lines 27-31 (the size) and 33-43 (the enhancement of the content).
preprocess_image(image) ==
    IF image.w < 1000 \/ image.h < 1000
    THEN [w |-> ScaledDim(image.w, Min2(image.w, image.h)),
          h |-> ScaledDim(image.h, Min2(image.w, image.h)),
          content |-> "enhanced"]
    ELSE [w |-> image.w, h |-> image.h, content |-> "enhanced"]

(***************************************************************************)
(* extract_documents                                                       *)
(***************************************************************************)
\* model.predict of lines 172-177: the detector sees the scene's regions in
\* the coordinates of the image it is given, keeps those of score at least
\* conf, and returns a mask for each when it returns masks at all
\* (results[0].masks is None otherwise: present is FALSE).
Predict(image, confidence, iou) ==
    LET fx   == image.w \div Photo.w
        fy   == image.h \div Photo.h
        seen == SelectSeq([i \in 1..Len(scene.dets) |->
                              [box  |-> <<scene.dets[i].box[1] * fx,
                                          scene.dets[i].box[2] * fy,
                                          scene.dets[i].box[3] * fx,
                                          scene.dets[i].box[4] * fy>>,
                               conf |-> scene.dets[i].conf,
                               mask |-> [of |-> i]]],
                          LAMBDA d : d.conf >= confidence)
    IN  [boxes |-> [i \in 1..Len(seen) |-> seen[i].box],
         confs |-> [i \in 1..Len(seen) |-> seen[i].conf],
         masks |-> [present |-> scene.hasMasks,
                    data    |-> IF scene.hasMasks
                                THEN [i \in 1..Len(seen) |-> seen[i].mask]
                                ELSE <<>>]]

\* int() on a coordinate: truncation to whole pixels
int(c) == c \div Scale

\* Line 193, with ratio = area / img_area of lines 190-191
InWindowMut(box, img_area, min_area_ratio, max_area_ratio) ==
    LET area  == (box[3] - box[1]) * (box[4] - box[2])
        ratio == <<area, img_area * Scale * Scale>>
    IN  ~RatGT(min_area_ratio, ratio) /\ ~RatGT(ratio, max_area_ratio)

InWindow(box, img_area, min_area_ratio, max_area_ratio) ==
    LET area  == (box[3] - box[1]) * (box[4] - box[2])
        ratio == <<area, img_area * Scale * Scale>>
    IN  RatGT(ratio, min_area_ratio) /\ RatGT(max_area_ratio, ratio)

\* Lines 187-194
valid_indices(boxes, img_area, min_area_ratio, max_area_ratio) ==
    SelectSeq([i \in 1..Len(boxes) |-> i],
              LAMBDA i : InWindow(boxes[i], img_area, min_area_ratio, max_area_ratio))

\* Line 196: if not valid_indices
NoValidMut(valid) == FALSE

NoValid(valid) == valid = <<>>

\* Line 209: the suppressor is called with its default threshold, line 89
DedupMut(filtered_boxes, filtered_confs, iou) ==
    filter_overlapping_detections(filtered_boxes, filtered_confs, iou)

Dedup(filtered_boxes, filtered_confs, iou) ==
    filter_overlapping_detections(filtered_boxes, filtered_confs, <<3, 10>>)

\* Lines 204-206: masks = results[0].masks.data[valid_indices] when the
\* detector returned masks, None otherwise.
FilteredMasksMut(result_masks, valid) ==
    IF result_masks.present
    THEN [present |-> TRUE, data |-> result_masks.data]
    ELSE [present |-> FALSE, data |-> <<>>]

FilteredMasks(result_masks, valid) ==
    IF result_masks.present
    THEN [present |-> TRUE,
          data |-> [k \in 1..Len(valid) |-> result_masks.data[valid[k]]]]
    ELSE [present |-> FALSE, data |-> <<>>]

\* Line 219: the document cropped from image by mask and box; the pixels are
\* those crop_document_with_mask computes from these three arguments.
cropped_doc(image, mask, box) == [image |-> image, mask |-> mask, box |-> box]

\* Lines 213-226
Document(image, filtered_boxes, filtered_confs, masks, i) ==
    LET box  == filtered_boxes[i]
        conf == filtered_confs[i]
        mask == IF masks.present THEN masks.data[i] ELSE None
    IN  [image |-> cropped_doc(image, mask, box),
         score |-> conf,
         box   |-> <<int(box[1]), int(box[2]), int(box[3]), int(box[4])>>]

\* Line 229: list.sort(key=score, reverse=True), a stable sort: insertion of
\* each document after the last one whose score is not smaller.
InsertByScoreMut(sorted, doc) ==
    LET before == {p \in 1..Len(sorted) : sorted[p].score <= doc.score}
        n      == Cardinality(before)
    IN  SubSeq(sorted, 1, n) \o <<doc>> \o SubSeq(sorted, n + 1, Len(sorted))

InsertByScore(sorted, doc) ==
    LET before == {p \in 1..Len(sorted) : sorted[p].score >= doc.score}
        n      == Cardinality(before)
    IN  SubSeq(sorted, 1, n) \o <<doc>> \o SubSeq(sorted, n + 1, Len(sorted))

RECURSIVE SortByScore(_)
SortByScore(documents) ==
    IF documents = <<>> THEN <<>>
    ELSE InsertByScore(SortByScore(SubSeq(documents, 1, Len(documents) - 1)),
                       documents[Len(documents)])

\* Lines 164-231.  suppressor and compositor count the calls made of
\* filter_overlapping_detections and crop_document_with_mask.
extract_documents(image, confidence, iou, preprocess, min_area_ratio, max_area_ratio) ==
    LET image1  == IF preprocess THEN preprocess_image(image) ELSE image
        results == Predict(image1, confidence, iou)
    IN  IF Len(results.boxes) = 0
        THEN [documents |-> <<>>, suppressor |-> 0, compositor |-> 0]
        ELSE
          LET img_area == image1.w * image1.h
              boxes    == results.boxes
              confs    == results.confs
              valid    == valid_indices(boxes, img_area, min_area_ratio, max_area_ratio)
          IN  IF NoValid(valid)
              THEN [documents |-> <<>>, suppressor |-> 0, compositor |-> 0]
              ELSE
                LET filtered_boxes == [k \in 1..Len(valid) |-> boxes[valid[k]]]
                    filtered_confs == [k \in 1..Len(valid) |-> confs[valid[k]]]
                    masks == FilteredMasks(results.masks, valid)
                    keep_indices == Dedup(filtered_boxes, filtered_confs, iou)
                    documents ==
                        [k \in 1..Len(keep_indices) |->
                            Document(image1, filtered_boxes, filtered_confs, masks,
                                     keep_indices[k])]
                IN  [documents  |-> SortByScore(documents),
                     suppressor |-> 1,
                     compositor |-> Len(keep_indices)]

(***************************************************************************)
(* extract_single_document                                                 *)
(***************************************************************************)
\* Lines 254-260; min_area_ratio and max_area_ratio take their defaults.
extract_single_document_mut(image, confidence, iou, preprocess) ==
    LET documents == extract_documents(image, confidence, iou, preprocess,
                                       <<1, 50>>, <<4, 5>>).documents
    IN  IF documents # <<>>
        THEN [doc  |-> documents[Len(documents)].image,
              conf |-> documents[Len(documents)].score]
        ELSE None

extract_single_document(image, confidence, iou, preprocess) ==
    LET documents == extract_documents(image, confidence, iou, preprocess,
                                       <<1, 50>>, <<4, 5>>).documents
    IN  IF documents # <<>>
        THEN [doc |-> documents[1].image, conf |-> documents[1].score]
        ELSE None

(***************************************************************************)
(* The localizer: Spec                                                     *)
(***************************************************************************)
\* The code keeps no state between calls (no globals are written), so a
\* behaviour is one scene and one call on it.
Init ==
    /\ tieRank \in Permutations1(MaxSceneDet)
    /\ \E n \in 0..MaxSceneDet, hasMasks \in BOOLEAN :
         \E boxes \in [1..n -> SceneBoxPool], confs \in [1..n -> ScorePool] :
            scene = [dets |-> [i \in 1..n |-> [box |-> boxes[i], conf |-> confs[i]]],
                     hasMasks |-> hasMasks]
    /\ last = Idle
    /\ sup = Idle
    /\ enh = Idle
    /\ comp = Idle
    /\ ext = Idle

\* The image the detector is given (lines 165-166).
EnhancedPhoto == preprocess_image(Photo)

Detected(preprocess) == IF preprocess THEN EnhancedPhoto ELSE Photo

ExtractDocuments ==
    /\ last = Idle
    /\ \E confidence \in ConfidencePool, iou \in IouPool, preprocess \in BOOLEAN,
          window \in WindowPool :
         LET r == extract_documents(Photo, confidence, iou, preprocess,
                                    window[1], window[2])
         IN  last' = [fn |-> "extract_documents",
                      confidence |-> confidence, iou |-> iou,
                      preprocess |-> preprocess,
                      min_area_ratio |-> window[1], max_area_ratio |-> window[2],
                      image |-> Detected(preprocess),
                      detected |-> Predict(Detected(preprocess), confidence, iou),
                      returned |-> r.documents,
                      suppressor |-> r.suppressor,
                      compositor |-> r.compositor]
    /\ UNCHANGED <<tieRank, scene, sup, enh, comp, ext>>

ExtractSingleDocument ==
    /\ last = Idle
    /\ \E confidence \in ConfidencePool, iou \in IouPool, preprocess \in BOOLEAN :
         last' = [fn |-> "extract_single_document",
                  confidence |-> confidence, iou |-> iou,
                  preprocess |-> preprocess,
                  returned |-> extract_single_document(Photo, confidence, iou,
                                                       preprocess)]
    /\ UNCHANGED <<tieRank, scene, sup, enh, comp, ext>>

Next == ExtractDocuments \/ ExtractSingleDocument

Spec == Init /\ [][Next]_vars

(***************************************************************************)
(* Claims about extract_documents and extract_single_document              *)
(***************************************************************************)
DocsReturned == last # Idle /\ last.fn = "extract_documents"

SingleReturned == last # Idle /\ last.fn = "extract_single_document"

\* area of a detector box over the area of the image it was detected in
SourceRatio(box, image) ==
    <<(box[3] - box[1]) * (box[4] - box[2]), image.w * image.h * Scale * Scale>>

\* the same for a returned box, which is in whole pixels
ReturnedRatio(box, image) ==
    <<(box[3] - box[1]) * (box[4] - box[2]), image.w * image.h>>

StrictlyInside(ratio, lo, hi) == RatGT(ratio, lo) /\ RatGT(hi, ratio)

\* the detections of the last call that pass its area window
PassingDetections ==
    {i \in 1..Len(last.detected.boxes) :
        StrictlyInside(SourceRatio(last.detected.boxes[i], last.image),
                       last.min_area_ratio, last.max_area_ratio)}

\* C1: the list extract_documents returns is ordered by score, non-increasing.
C1_SortedByScore ==
    DocsReturned =>
      \A p \in 1..(Len(last.returned) - 1) :
         last.returned[p].score >= last.returned[p + 1].score

\* Two candidates of different scores, detected in ascending order of score.
C1_Witness ==
    /\ DocsReturned
    /\ Len(last.returned) = 2
    /\ Len(last.detected.confs) = 2
    /\ last.detected.confs[1] < last.detected.confs[2]
    /\ last.returned[1].score > last.returned[2].score

C3_ReturnedBoxInWindow ==
    DocsReturned =>
      \A p \in 1..Len(last.returned) :
         StrictlyInside(ReturnedRatio(last.returned[p].box, last.image),
                        last.min_area_ratio, last.max_area_ratio)

\* C3 amended: every returned candidate is built from a detector box (before
\* the truncation to whole pixels of the returned box) whose area ratio is
\* strictly inside the window; a detection whose ratio equals either end of
\* the window is never returned.
C3_SourceBoxInWindow ==
    DocsReturned =>
      /\ \A p \in 1..Len(last.returned) :
            StrictlyInside(SourceRatio(last.returned[p].image.box, last.image),
                           last.min_area_ratio, last.max_area_ratio)
      /\ \A i \in 1..Len(last.detected.boxes) :
            LET r == SourceRatio(last.detected.boxes[i], last.image)
            IN  ( \/ r[1] * last.min_area_ratio[2] = last.min_area_ratio[1] * r[2]
                  \/ r[1] * last.max_area_ratio[2] = last.max_area_ratio[1] * r[2] )
                => \A p \in 1..Len(last.returned) :
                      last.returned[p].image.box # last.detected.boxes[i]

\* One detection is returned, one whose ratio equals max_area_ratio is not.
C3_Witness ==
    /\ DocsReturned
    /\ Len(last.returned) = 1
    /\ \E i \in 1..Len(last.detected.boxes) :
          LET r == SourceRatio(last.detected.boxes[i], last.image)
          IN  r[1] * last.max_area_ratio[2] = last.max_area_ratio[1] * r[2]

\* C4: with no detections, or with every detection outside the area window,
\* extract_documents returns the empty list and calls neither the suppressor
\* nor the compositor.
C4_EmptyWithoutCalls ==
    (DocsReturned /\ PassingDetections = {}) =>
       /\ last.returned = <<>>
       /\ last.suppressor = 0
       /\ last.compositor = 0

\* Detections were returned by the detector and all were filtered out.
C4_Witness ==
    /\ DocsReturned
    /\ Len(last.detected.boxes) = 2
    /\ PassingDetections = {}
    /\ last.returned = <<>>

\* C8: the threshold of the deduplication in extract_documents is 0.3 whatever
\* the iou argument: a call that differs only in iou and gets the same
\* detections returns the same list, and a detection that passes the area
\* window is left out only for an IoU above 0.3 with a returned candidate.
C8_ThresholdIndependentOfIou ==
    DocsReturned =>
      /\ \A iou2 \in IouPool :
            Predict(last.image, last.confidence, iou2) = last.detected
            => extract_documents(Photo, last.confidence, iou2, last.preprocess,
                                 last.min_area_ratio, last.max_area_ratio).documents
                  = last.returned
      /\ \A i \in PassingDetections :
            \/ \E p \in 1..Len(last.returned) :
                  last.returned[p].image.box = last.detected.boxes[i]
            \/ \E p \in 1..Len(last.returned) :
                  RatGT(IoU(last.returned[p].image.box, last.detected.boxes[i]),
                        <<3, 10>>)

\* Called with iou = 0.6, two detections of IoU 0.5 give a single candidate.
C8_Witness ==
    /\ DocsReturned
    /\ last.iou = <<6, 10>>
    /\ PassingDetections = {1, 2}
    /\ IoU(last.detected.boxes[1], last.detected.boxes[2])[1] * 2
          = IoU(last.detected.boxes[1], last.detected.boxes[2])[2]
    /\ Len(last.returned) = 1
    /\ Len(last.detected.boxes) = 2

\* what extract_documents returns for the arguments of the last call of
\* extract_single_document
SameCallDocuments ==
    extract_documents(Photo, last.confidence, last.iou, last.preprocess,
                      <<1, 50>>, <<4, 5>>).documents

\* the returned value is the first of documents, or None when there is none
FirstOf(documents) ==
    /\ last.returned = None <=> documents = <<>>
    /\ documents # <<>> =>
          /\ last.returned.doc = documents[1].image
          /\ last.returned.conf = documents[1].score
          /\ \A p \in 1..Len(documents) : documents[p].score <= last.returned.conf

\* C9: extract_single_document returns None exactly when extract_documents,
\* called with the same image, confidence, iou and preprocess, returns the
\* empty list; otherwise it returns the image and the score of the first
\* candidate of that list, and that score is the largest of the list.
C9_SingleIsFirst ==
    SingleReturned => LET documents == SameCallDocuments IN FirstOf(documents)

\* Two candidates of different scores: the better one is returned.
C9_Witness ==
    /\ SingleReturned
    /\ last.returned # None
    /\ LET documents == SameCallDocuments
       IN  /\ Len(documents) = 2
           /\ documents[1].score > documents[2].score
           /\ last.returned.conf = documents[1].score

\* Nothing is found: None is returned.
C9_WitnessNone ==
    /\ SingleReturned
    /\ Len(scene.dets) > 0
    /\ last.returned = None

\* The Candidate doc is built from entry i of the detector's output: the
\* image is the crop of the detected image by that entry's box and by that
\* entry's mask (by no mask when the detector returned none, which is the
\* plain rectangular crop of lines 64-67), the score is that entry's score
\* and the box is that entry's box in whole pixels.
BuiltFrom(doc, i) ==
    LET box == last.detected.boxes[i]
    IN  /\ doc.image.image = last.image
        /\ doc.image.box = box
        /\ doc.image.mask = IF last.detected.masks.present
                            THEN last.detected.masks.data[i]
                            ELSE None
        /\ doc.score = last.detected.confs[i]
        /\ doc.box = <<int(box[1]), int(box[2]), int(box[3]), int(box[4])>>

\* C12: through valid_indices and keep_indices every returned Candidate is
\* built from one single entry of the detector's output (its score, its box
\* and the mask of its image are that entry's), no entry yields two
\* Candidates, and without masks every Candidate is the plain crop of its
\* own box.
C12_OneDetectionPerCandidate ==
    DocsReturned =>
        LET n == Len(last.returned)
            m == Len(last.detected.boxes)
        IN  /\ \E from \in [1..n -> 1..m] :
                  /\ \A p, q \in 1..n : p # q => from[p] # from[q]
                  /\ \A p \in 1..n : BuiltFrom(last.returned[p], from[p])
            /\ ~last.detected.masks.present =>
                  \A p \in 1..n :
                     /\ last.returned[p].image.mask = None
                     /\ \E i \in 1..m : last.returned[p].image.box = last.detected.boxes[i]

\* The area filter drops the first entry, so that the second entry is at
\* index 1 of the filtered arrays, and the Candidate carries the second
\* entry's mask.
C12_Witness ==
    /\ DocsReturned
    /\ last.detected.masks.present
    /\ Len(last.detected.boxes) = 2
    /\ ~InWindow(last.detected.boxes[1], last.image.w * last.image.h,
                 last.min_area_ratio, last.max_area_ratio)
    /\ Len(last.returned) = 1
    /\ last.returned[1].image.mask = last.detected.masks.data[2]

\* The suppressor's order differs from the detector's: the second entry is
\* returned first, with its own mask, and the first entry second.
C12_WitnessReordered ==
    /\ DocsReturned
    /\ last.detected.masks.present
    /\ Len(last.returned) = 2
    /\ BuiltFrom(last.returned[1], 2)
    /\ BuiltFrom(last.returned[2], 1)
    /\ last.returned[1].score > last.returned[2].score

\* No masks: the Candidates are plain crops.
C12_WitnessNoMasks ==
    /\ DocsReturned
    /\ ~last.detected.masks.present
    /\ Len(last.returned) = 2
    /\ last.returned[1].image.mask = None

(***************************************************************************)
(* The suppressor on its own: SpecSuppress                                 *)
(***************************************************************************)
InitSuppress ==
    /\ InitTie
    /\ scene = Idle
    /\ last = Idle
    /\ enh = Idle
    /\ comp = Idle
    /\ ext = Idle
    /\ \E n \in 0..MaxDet, thr \in ThresholdPool :
         \E boxes \in [1..n -> BoxPool], confs \in [1..n -> ScorePool] :
            sup = [state |-> "called", boxes |-> boxes, confs |-> confs,
                   iou_threshold |-> thr]

FilterOverlappingDetections ==
    /\ sup.state = "called"
    /\ sup' = [state |-> "returned", boxes |-> sup.boxes, confs |-> sup.confs,
               iou_threshold |-> sup.iou_threshold,
               order |-> IF Len(sup.boxes) <= 1 THEN <<>>
                         ELSE sorted_indices(sup.confs),
               keep |-> filter_overlapping_detections(sup.boxes, sup.confs,
                                                      sup.iou_threshold)]
    /\ UNCHANGED <<tieRank, scene, last, enh, comp, ext>>

NextSuppress == FilterOverlappingDetections

SpecSuppress == InitSuppress /\ [][NextSuppress]_vars

(***************************************************************************)
(* preprocess_image on its own: SpecEnhance                                *)
(***************************************************************************)
DimPool == (1..MaxSmallDim) \cup {500, 800, 999, 1000, 1001, 1500}

InitEnhance ==
    /\ tieRank = <<>>
    /\ scene = Idle
    /\ last = Idle
    /\ sup = Idle
    /\ comp = Idle
    /\ ext = Idle
    /\ \E w \in DimPool, h \in DimPool :
          enh = [state |-> "called", image |-> [w |-> w, h |-> h, content |-> "raw"]]

PreprocessImage ==
    /\ enh.state = "called"
    /\ enh' = [state |-> "returned", image |-> enh.image,
               result |-> preprocess_image(enh.image)]
    /\ UNCHANGED <<tieRank, scene, last, sup, comp, ext>>

NextEnhance == PreprocessImage

SpecEnhance == InitEnhance /\ [][NextEnhance]_vars

Abs(n) == IF n >= 0 THEN n ELSE -n

\* C10: preprocess_image never reduces a dimension; with both sides at least
\* 1000 the size is unchanged; with a side below 1000 the shorter side of the
\* result is at least 1000 and width : height is kept up to one pixel.
C10_UpscaleToThousand ==
    enh.state = "returned" =>
      LET w  == enh.image.w
          h  == enh.image.h
          w2 == enh.result.w
          h2 == enh.result.h
      IN  /\ w2 >= w
          /\ h2 >= h
          /\ Min2(w, h) >= 1000 => (w2 = w /\ h2 = h)
          /\ Min2(w, h) < 1000 =>
                /\ Min2(w2, h2) >= 1000
                /\ Abs(w2 * h - h2 * w) <= Max2(w, h)

(***************************************************************************)
(* crop_document_with_mask                                                 *)
(***************************************************************************)
\* An image is [w, h, px] with px[y][x] the pixel <<r, g, b>> of row y and
\* column x, both counted from 1.  A mask is [w, h, v] with v[y][x] the
\* numerator of a value over MaskDen.
White == <<255, 255, 255>>

\* cv2.resize with its default bilinear interpolation, one axis: the source
\* index (from 0) and the weight, over 2 * dst, of its right neighbour, for
\* destination index d (from 0).  The source coordinate is
\* (d + 0.5) * src / dst - 0.5; outside the source the edge value is taken.
ResizeCoord(d, src, dst) ==
    LET num == (2 * d + 1) * src - dst
        den == 2 * dst
        s0  == IF num < 0 THEN -1 ELSE num \div den
    IN  IF s0 < 0 THEN <<0, 0>>
        ELSE IF s0 >= src - 1 THEN <<src - 1, 0>>
        ELSE <<s0, num - s0 * den>>

\* Line 72: mask_resized[y][x] as the rational <<num, den>>.
cv2_resize(mask, width, height) ==
    [y \in 1..height |-> [x \in 1..width |->
        LET cx  == ResizeCoord(x - 1, mask.w, width)
            cy  == ResizeCoord(y - 1, mask.h, height)
            xa  == cx[1] + 1
            xb  == Min2(cx[1] + 2, mask.w)
            ya  == cy[1] + 1
            yb  == Min2(cy[1] + 2, mask.h)
            wxb == cx[2]
            wxa == 2 * width - cx[2]
            wyb == cy[2]
            wya == 2 * height - cy[2]
        IN  << wya * (wxa * mask.v[ya][xa] + wxb * mask.v[ya][xb])
               + wyb * (wxa * mask.v[yb][xa] + wxb * mask.v[yb][xb]),
               4 * width * height * MaskDen >>]]

\* Line 82: mask_3channel > 0.5
AboveHalfMut(value) == ~RatGT(<<1, 2>>, value)

AboveHalf(value) == RatGT(value, <<1, 2>>)

\* Lines 61-86.  A slice a[lo:hi] stops at the end of the array.
crop_document_with_mask(image, mask, box) ==
    LET x1 == int(box[1])
        y1 == int(box[2])
        x2 == Min2(int(box[3]), image.w)
        y2 == Min2(int(box[4]), image.h)
        cropped == [r \in 1..(y2 - y1) |-> [c \in 1..(x2 - x1) |->
                       image.px[y1 + r][x1 + c]]]
    IN  IF mask # None
        THEN LET mask_resized == cv2_resize(mask, image.w, image.h)
                 result == [r \in 1..(y2 - y1) |-> [c \in 1..(x2 - x1) |->
                               [ch \in 1..3 |->
                                   IF AboveHalf(mask_resized[y1 + r][x1 + c])
                                   THEN cropped[r][c][ch]
                                   ELSE 255]]]
             IN  [w |-> x2 - x1, h |-> y2 - y1, px |-> result]
        ELSE [w |-> x2 - x1, h |-> y2 - y1, px |-> cropped]

(***************************************************************************)
(* crop_document_with_mask on its own: SpecComposite                       *)
(***************************************************************************)
Ink == <<10, 20, 30>>

Paper == <<200, 180, 160>>

CropImagePool ==
    { [w |-> 2, h |-> 2, px |-> <<<<Ink, Paper>>, <<Paper, Ink>>>>],
      [w |-> 2, h |-> 2, px |-> <<<<White, Ink>>, <<Paper, White>>>>] }

\* <<width, height>> of the masks: coarser than the image, as fine, finer
MaskShapePool == {<<1, 1>>, <<2, 1>>, <<2, 2>>, <<3, 1>>}

MaskPool ==
    UNION { { [w |-> shape[1], h |-> shape[2], v |-> v] :
                v \in [1..shape[2] -> [1..shape[1] -> 0..MaskDen]] } :
            shape \in MaskShapePool }

\* boxes inside the image that cover at least one whole pixel
CropBoxes(image) ==
    { box \in (0..(image.w * Scale)) \X (0..(image.h * Scale))
              \X (0..(image.w * Scale)) \X (0..(image.h * Scale)) :
        int(box[1]) < int(box[3]) /\ int(box[2]) < int(box[4]) }

InitComposite ==
    /\ tieRank = <<>>
    /\ scene = Idle
    /\ last = Idle
    /\ sup = Idle
    /\ enh = Idle
    /\ ext = Idle
    /\ \E image \in CropImagePool, mask \in MaskPool \cup {None} :
         \E box \in CropBoxes(image) :
            comp = [state |-> "called", image |-> image, mask |-> mask, box |-> box]

CropDocumentWithMask ==
    /\ comp.state = "called"
    /\ comp' = [state |-> "returned", image |-> comp.image, mask |-> comp.mask,
                box |-> comp.box,
                result |-> crop_document_with_mask(comp.image, comp.mask, comp.box)]
    /\ UNCHANGED <<tieRank, scene, last, sup, enh, ext>>

NextComposite == CropDocumentWithMask

SpecComposite == InitComposite /\ [][NextComposite]_vars

CropReturned == comp.state = "returned"

\* the source pixel under pixel (r, c) of the crop
SourcePixel(r, c) ==
    comp.image.px[int(comp.box[2]) + r][int(comp.box[1]) + c]

\* the resampled mask value under pixel (r, c) of the crop
MaskValueAt(r, c) ==
    cv2_resize(comp.mask, comp.image.w, comp.image.h)
        [int(comp.box[2]) + r][int(comp.box[1]) + c]

MaskIsConstant(k) ==
    /\ comp.mask # None
    /\ \A y \in 1..comp.mask.h, x \in 1..comp.mask.w : comp.mask.v[y][x] = k

\* C7: the result has the dimensions of the box (in whole pixels); a pixel is
\* the source pixel where the resampled mask value is > 0.5 and white
\* otherwise (0.5 itself gives white); without a mask the result is the
\* rectangular crop; a mask of 1.0 everywhere gives what no mask gives, a mask
\* of 0.0 everywhere gives a white image.
C7_MaskedCrop ==
    CropReturned =>
      LET out == comp.result
          cw  == int(comp.box[3]) - int(comp.box[1])
          ch  == int(comp.box[4]) - int(comp.box[2])
      IN  /\ out.w = cw
          /\ out.h = ch
          /\ DOMAIN out.px = 1..ch
          /\ \A r \in 1..ch :
                /\ DOMAIN out.px[r] = 1..cw
                /\ \A c \in 1..cw :
                      /\ comp.mask = None => out.px[r][c] = SourcePixel(r, c)
                      /\ comp.mask # None =>
                            /\ RatGT(MaskValueAt(r, c), <<1, 2>>)
                                  => out.px[r][c] = SourcePixel(r, c)
                            /\ ~RatGT(MaskValueAt(r, c), <<1, 2>>)
                                  => out.px[r][c] = White
                      /\ MaskIsConstant(MaskDen) => out.px[r][c] = SourcePixel(r, c)
                      /\ MaskIsConstant(0) => out.px[r][c] = White

\* A crop in which one pixel is kept and another, not white in the source and
\* under a resampled mask value of exactly 0.5, is made white.
C7_Witness ==
    /\ CropReturned
    /\ comp.mask # None
    /\ \E r \in 1..comp.result.h, c \in 1..comp.result.w :
          /\ MaskValueAt(r, c)[1] * 2 = MaskValueAt(r, c)[2]
          /\ SourcePixel(r, c) # White
          /\ comp.result.px[r][c] = White
    /\ \E r \in 1..comp.result.h, c \in 1..comp.result.w :
          /\ RatGT(MaskValueAt(r, c), <<1, 2>>)
          /\ comp.result.px[r][c] = SourcePixel(r, c)
          /\ SourcePixel(r, c) # White

(***************************************************************************)
(* Claims about filter_overlapping_detections                              *)
(***************************************************************************)
SupReturned == sup.state = "returned" /\ Len(sup.boxes) >= 2

PosIn(order, i) == CHOOSE p \in 1..Len(order) : order[p] = i

IsKept(i) == i \in Range(sup.keep)

\* The indices of order that are in keep, in the order of order.
RECURSIVE KeptOf(_, _)
KeptOf(order, keepSet) ==
    IF order = <<>> THEN <<>>
    ELSE IF order[1] \in keepSet
         THEN <<order[1]>> \o KeptOf(Tail(order), keepSet)
         ELSE KeptOf(Tail(order), keepSet)

\* C5: for N >= 2 boxes the suppressor returns, in descending-score order,
\* exactly the greedy set: the first index of the descending-score order is
\* accepted, a later one is accepted if and only if its IoU with every index
\* accepted before it is <= iou_threshold (equality does not suppress), so
\* every rejected index has IoU > iou_threshold with an accepted one, and
\* when no two boxes overlap all N indices are returned.
C5_GreedySet ==
    SupReturned =>
      LET n     == Len(sup.boxes)
          order == sup.order
          thr   == sup.iou_threshold
      IN  /\ Len(order) = n
          /\ Range(order) = 1..n
          /\ \A p \in 1..(n - 1) : sup.confs[order[p]] >= sup.confs[order[p + 1]]
          /\ sup.keep[1] = order[1]
          /\ sup.keep = KeptOf(order, Range(sup.keep))
          /\ \A p \in 2..n :
                IsKept(order[p]) <=>
                   \A q \in 1..(p - 1) :
                      IsKept(order[q]) =>
                         ~RatGT(IoU(sup.boxes[order[p]], sup.boxes[order[q]]), thr)
          /\ \A i \in 1..n :
                ~IsKept(i) =>
                   \E k \in 1..n :
                      /\ IsKept(k)
                      /\ PosIn(order, k) < PosIn(order, i)
                      /\ RatGT(IoU(sup.boxes[i], sup.boxes[k]), thr)
          /\ (\A i, j \in 1..n : i # j => IoU(sup.boxes[i], sup.boxes[j])[1] = 0)
                => sup.keep = order

\* Three boxes: one accepted although its IoU with an accepted box equals the
\* threshold, one rejected.
C5_Witness ==
    /\ SupReturned
    /\ Len(sup.boxes) = 3
    /\ Len(sup.keep) = 2
    /\ LET a == sup.boxes[sup.keep[1]]
           b == sup.boxes[sup.keep[2]]
       IN  /\ IoU(a, b)[1] * sup.iou_threshold[2] = sup.iou_threshold[1] * IoU(a, b)[2]
           /\ IoU(a, b)[1] > 0

\* C6: equal scores are processed in input order: for i < j with equal score,
\* i comes before j in the processing order, so of an overlapping pair it is
\* i that is kept, and if both are kept i precedes j in the result.
C6_TiesInInputOrder ==
    SupReturned =>
      \A i, j \in 1..Len(sup.boxes) :
         (i < j /\ sup.confs[i] = sup.confs[j]) =>
            /\ PosIn(sup.order, i) < PosIn(sup.order, j)
            /\ RatGT(IoU(sup.boxes[i], sup.boxes[j]), sup.iou_threshold) => ~IsKept(j)
            /\ (IsKept(i) /\ IsKept(j)) =>
                  PosIn(sup.keep, i) < PosIn(sup.keep, j)

(***************************************************************************)
(* extract_invoice_data and its call site (src/app.py)                     *)
(*                                                                         *)
(* A text is the sequence of its characters.  Python values are records:   *)
(* None, [dict |-> pairs], [list |-> values], [str |-> characters],        *)
(* [int |-> n], [bool |-> b].  The string of a JSONDecodeError,            *)
(* "msg: line L column C (char P)", is [str |-> <<msg, L, C, P>>]; the     *)
(* string of a service exception is [str |-> <<message>>].                 *)
(***************************************************************************)
\* the character U+0060, which a TLA+ string cannot hold
Backtick == "BACKTICK"

Fence == <<Backtick, Backtick, Backtick>>

FenceJson == Fence \o <<"j", "s", "o", "n">>

\* str.strip(): the whitespace of the texts used here
Whitespace == {" ", "\n", "\t", "\r"}

RECURSIVE LStrip(_)
LStrip(s) == IF s # <<>> /\ Head(s) \in Whitespace THEN LStrip(Tail(s)) ELSE s

RECURSIVE RStrip(_)
RStrip(s) ==
    IF s # <<>> /\ s[Len(s)] \in Whitespace THEN RStrip(SubSeq(s, 1, Len(s) - 1)) ELSE s

strip(s) == RStrip(LStrip(s))

startswith(s, prefix) ==
    Len(s) >= Len(prefix) /\ SubSeq(s, 1, Len(prefix)) = prefix

endswith(s, suffix) ==
    Len(s) >= Len(suffix) /\ SubSeq(s, Len(s) - Len(suffix) + 1, Len(s)) = suffix

\* Lines 74-84: the text that is given to json.loads
response_text(text) ==
    LET t0 == strip(text)
        t1 == IF startswith(t0, FenceJson) THEN SubSeq(t0, 8, Len(t0)) ELSE t0
        t2 == IF startswith(t1, Fence) THEN SubSeq(t1, 4, Len(t1)) ELSE t1
        t3 == IF endswith(t2, Fence) THEN SubSeq(t2, 1, Len(t2) - 3) ELSE t2
    IN  strip(t3)

\* json.loads (line 85), as json.decoder and json.scanner compute it, for
\* documents without escapes or control characters in strings and with
\* numbers that are unsigned integers.  Indices are 1-based: the character
\* Python calls char P is s[P + 1].
Digits == <<"0", "1", "2", "3", "4", "5", "6", "7", "8", "9">>

Parsed(value, end) == [ok |-> TRUE, value |-> value, end |-> end]

DecodeError(msg, at) == [ok |-> FALSE, msg |-> msg, at |-> at]

CharAt(s, i) == IF i <= Len(s) THEN s[i] ELSE ""

RECURSIVE SkipWs(_, _)
SkipWs(s, i) == IF CharAt(s, i) \in Whitespace THEN SkipWs(s, i + 1) ELSE i

Matches(s, i, word) ==
    i + Len(word) - 1 <= Len(s) /\ SubSeq(s, i, i + Len(word) - 1) = word

\* scanstring: begin is the index after the opening quote
RECURSIVE scanstring(_, _, _)
scanstring(s, begin, j) ==
    IF j > Len(s) THEN DecodeError("Unterminated string starting at", begin - 1)
    ELSE IF s[j] = "\"" THEN Parsed([str |-> SubSeq(s, begin, j - 1)], j + 1)
    ELSE scanstring(s, begin, j + 1)

DigitValue(c) == (CHOOSE d \in DOMAIN Digits : Digits[d] = c) - 1

IsDigit(c) == \E d \in DOMAIN Digits : Digits[d] = c

\* NUMBER_RE: 0 | [1-9][0-9]*
RECURSIVE match_number(_, _, _)
match_number(s, j, n) ==
    IF IsDigit(CharAt(s, j)) THEN match_number(s, j + 1, 10 * n + DigitValue(s[j]))
    ELSE Parsed([int |-> n], j)

\* dict(pairs): a key keeps the place of its first pair and the value of its
\* last one
DictOf(pairs) ==
    LET firsts == SelectSeq([i \in 1..Len(pairs) |-> i],
                            LAMBDA i : \A j \in 1..(i - 1) : pairs[j][1] # pairs[i][1])
        lastOf(key) == CHOOSE i \in 1..Len(pairs) :
                          /\ pairs[i][1] = key
                          /\ \A j \in (i + 1)..Len(pairs) : pairs[j][1] # key
    IN  [dict |-> [k \in 1..Len(firsts) |->
                     <<pairs[firsts[k]][1], pairs[lastOf(pairs[firsts[k]][1])][2]>>]]

RECURSIVE scan_once(_, _)
RECURSIVE ObjectPairs(_, _, _)
RECURSIVE ArrayValues(_, _, _)

\* JSONObject's loop: begin is the index after the opening quote of a key
ObjectPairs(s, begin, pairs) ==
    LET key == scanstring(s, begin, begin)
    IN  IF ~key.ok THEN key
        ELSE
          LET colon == IF CharAt(s, key.end) # ":" THEN SkipWs(s, key.end) ELSE key.end
          IN  IF CharAt(s, colon) # ":"
              THEN DecodeError("Expecting ':' delimiter", colon)
              ELSE
                LET value == scan_once(s, SkipWs(s, colon + 1))
                IN  IF ~value.ok THEN value
                    ELSE
                      LET end      == SkipWs(s, value.end)
                          nextchar == CharAt(s, end)
                          pairs1   == Append(pairs, <<key.value, value.value>>)
                          quote    == SkipWs(s, end + 1)
                      IN  IF nextchar = "}" THEN Parsed(DictOf(pairs1), end + 1)
                          ELSE IF nextchar # ","
                          THEN DecodeError("Expecting ',' delimiter", end)
                          ELSE IF CharAt(s, quote) # "\""
                          THEN DecodeError(
                                 "Expecting property name enclosed in double quotes",
                                 quote)
                          ELSE ObjectPairs(s, quote + 1, pairs1)

\* JSONObject: begin is the index after the brace
JSONObject(s, begin) ==
    LET end == IF CharAt(s, begin) # "\"" THEN SkipWs(s, begin) ELSE begin
    IN  IF CharAt(s, end) = "}" THEN Parsed([dict |-> <<>>], end + 1)
        ELSE IF CharAt(s, end) # "\""
        THEN DecodeError("Expecting property name enclosed in double quotes", end)
        ELSE ObjectPairs(s, end + 1, <<>>)

\* JSONArray's loop: begin is the index of the next value
ArrayValues(s, begin, values) ==
    LET value == scan_once(s, begin)
    IN  IF ~value.ok THEN value
        ELSE
          LET end      == SkipWs(s, value.end)
              nextchar == CharAt(s, end)
              values1  == Append(values, value.value)
          IN  IF nextchar = "]" THEN Parsed([list |-> values1], end + 1)
              ELSE IF nextchar # ","
              THEN DecodeError("Expecting ',' delimiter", end)
              ELSE ArrayValues(s, SkipWs(s, end + 1), values1)

\* JSONArray: begin is the index after the bracket
JSONArray(s, begin) ==
    LET end == SkipWs(s, begin)
    IN  IF CharAt(s, end) = "]" THEN Parsed([list |-> <<>>], end + 1)
        ELSE ArrayValues(s, end, <<>>)

\* json.scanner's scan_once; StopIteration(idx) becomes "Expecting value" at
\* idx in every caller
scan_once(s, idx) ==
    LET nextchar == CharAt(s, idx)
    IN  IF nextchar = "\"" THEN scanstring(s, idx + 1, idx + 1)
        ELSE IF nextchar = "{" THEN JSONObject(s, idx + 1)
        ELSE IF nextchar = "[" THEN JSONArray(s, idx + 1)
        ELSE IF Matches(s, idx, <<"n", "u", "l", "l">>) THEN Parsed(None, idx + 4)
        ELSE IF Matches(s, idx, <<"t", "r", "u", "e">>)
        THEN Parsed([bool |-> TRUE], idx + 4)
        ELSE IF Matches(s, idx, <<"f", "a", "l", "s", "e">>)
        THEN Parsed([bool |-> FALSE], idx + 5)
        ELSE IF nextchar = "0" THEN Parsed([int |-> 0], idx + 1)
        ELSE IF IsDigit(nextchar) THEN match_number(s, idx, 0)
        ELSE DecodeError("Expecting value", idx)

\* JSONDecoder.decode: one value, then nothing but whitespace
json_loads(s) ==
    LET obj == scan_once(s, SkipWs(s, 1))
    IN  IF ~obj.ok THEN obj
        ELSE IF SkipWs(s, obj.end) # Len(s) + 1
        THEN DecodeError("Extra data", SkipWs(s, obj.end))
        ELSE obj

\* str(e) of a JSONDecodeError raised on doc at index at
DecodeErrorStr(doc, msg, at) ==
    LET pos      == at - 1
        newlines == {i \in 1..pos : doc[i] = "\n"}
        lastNl   == IF newlines = {} THEN 0
                    ELSE CHOOSE i \in newlines : \A j \in newlines : j <= i
    IN  [str |-> <<msg, Cardinality(newlines) + 1, at - lastNl, pos>>]

\* bool(value), as in "if error" and "elif data" of lines 159 and 161
Truthy(value) ==
    IF value = None THEN FALSE
    ELSE IF "dict" \in DOMAIN value THEN value.dict # <<>>
    ELSE IF "list" \in DOMAIN value THEN value.list # <<>>
    ELSE IF "str" \in DOMAIN value THEN value.str # <<>>
    ELSE IF "int" \in DOMAIN value THEN value.int # 0
    ELSE value.bool

\* src/prompts.py, line 114: PROMPTS.get(language, PROMPTS['ar'])
get_prompt(language) ==
    IF language \in {"ar", "en"} THEN [prompt |-> language] ELSE [prompt |-> "ar"]

\* model.generate_content([prompt, image]) of line 73 and response.text of
\* line 74: the service is outside the program, its answer is an input.
generate_content(prompt, image) == ext.service

\* Lines 58-89
extract_invoice_data(image, language) ==
    LET prompt   == get_prompt(language)
        response == generate_content(prompt, image)
    IN  IF response.outcome # "text"
        THEN [data |-> None, error |-> [str |-> <<response.message>>]]
        ELSE
          LET doc  == response_text(response.text)
              data == json_loads(doc)
          IN  IF data.ok
              THEN [data |-> data.value, error |-> None]
              ELSE [data |-> None, error |-> DecodeErrorStr(doc, data.msg, data.at)]

\* Lines 159-246: st.error when error is true, else st.success and the
\* display of the record when data is true, else nothing.  The display
\* reads the record with data.get (line 170 on), which raises
\* AttributeError on a value that is not a dict.
Report(data, error) ==
    IF Truthy(error) THEN [shown |-> "error", raised |-> FALSE]
    ELSE IF Truthy(data)
    THEN [shown |-> "success", raised |-> "dict" \notin DOMAIN data]
    ELSE [shown |-> "nothing", raised |-> FALSE]

(***************************************************************************)
(* The structured extraction on its own: SpecExtract                       *)
(***************************************************************************)
Quote == "\""

\* What the service's text holds between its wrappings
BodyPool ==
    { <<>>,                                                  \* nothing
      <<"x">>,                                               \* prose
      <<"{">>,
      <<"{", "}">>,
      <<"{", Quote, "a", Quote, ":", "1", "}">>,
      <<"{", Quote, "a", Quote, ":", "1", "}", "x">>,
      <<"{", Quote, "a", Quote, ":", " ", "[", "0", ",", "1", "2", "]", "}">>,
      <<"{", Quote, "a", Quote, ":", "0", ",", Quote, "a", Quote, ":", "1", "}">>,
      <<"{", Quote, "a", Quote, "}">>,
      <<"{", Quote, "a", Quote, ":", "}">>,
      <<"[", "]">>,
      <<"[", "1", "]">>,
      <<"[", "1">>,
      <<"n", "u", "l", "l">>,
      <<"t", "r", "u", "e">>,
      <<"f", "a", "l", "s", "e">>,
      <<"0">>,
      <<"1">>,
      <<"0", "1">>,
      <<Quote, Quote>>,
      <<Quote, "a", Quote>>,
      <<Quote, "a">> }

\* The texts of the service: a body, bare or between Markdown fences
TextPool ==
    { pre \o open \o body \o close \o post :
        pre \in {<<>>, <<" ">>},
        open \in {<<>>, FenceJson \o <<"\n">>, Fence \o <<"\n">>},
        body \in BodyPool,
        close \in {<<>>, <<"\n">> \o Fence},
        post \in {<<>>, <<"\n">>} }

\* What the service can answer: generate_content raises, response.text
\* raises (a response without text), or a text.
ServicePool ==
    { [outcome |-> "exception", message |-> m] :
        m \in {"503 The service is currently unavailable", "429 Resource exhausted"} }
    \cup { [outcome |-> "no_text",
            message |-> "Invalid operation: response.text requires a valid Part"] }
    \cup { [outcome |-> "text", text |-> t] : t \in TextPool }

LanguagePool == {"ar", "en"}

InitExtract ==
    /\ tieRank = <<>>
    /\ scene = Idle
    /\ last = Idle
    /\ sup = Idle
    /\ enh = Idle
    /\ comp = Idle
    /\ \E service \in ServicePool, language \in LanguagePool :
          ext = [state |-> "called", service |-> service, language |-> language]

\* Lines 157-246: the call and the report of its outcome
ExtractInvoiceData ==
    /\ ext.state = "called"
    /\ LET r == extract_invoice_data("processed_image", ext.language)
       IN  ext' = [state |-> "reported", service |-> ext.service,
                   language |-> ext.language,
                   data |-> r.data, error |-> r.error,
                   report |-> Report(r.data, r.error)]
    /\ UNCHANGED <<tieRank, scene, last, sup, enh, comp>>

NextExtract == ExtractInvoiceData

SpecExtract == InitExtract /\ [][NextExtract]_vars

Reported == ext.state = "reported"

\* The text that reached json.loads, when the service gave a text
Payload == response_text(ext.service.text)

\* The service produced no usable output: it raised, its response had no
\* text, or nothing is left of its text once the wrappings are stripped.
NoUsableOutput ==
    \/ ext.service.outcome # "text"
    \/ Payload = <<>>

\* The payload is there and is not parseable.
Malformed ==
    /\ ext.service.outcome = "text"
    /\ Payload # <<>>
    /\ ~json_loads(Payload).ok

\* The failure values the caller receives for malformed payloads
MalformedErrors ==
    { DecodeErrorStr(response_text(t), json_loads(response_text(t)).msg,
                     json_loads(response_text(t)).at) :
        t \in { u \in TextPool : response_text(u) # <<>>
                                 /\ ~json_loads(response_text(u)).ok } }

\* A failed step gives the caller (None, error) with a true error string.
C11_FailureIsExplicit ==
    (Reported /\ (NoUsableOutput \/ Malformed)) =>
        /\ ext.data = None
        /\ ext.error # None
        /\ Truthy(ext.error)

\* The failure value of a step without usable output is none of the failure
\* values of malformed payloads.
C11_KindsDistinguished ==
    (Reported /\ NoUsableOutput) => ext.error \notin MalformedErrors

\* Every outcome is reported as an error or as a success.
C11_OutcomeReported ==
    Reported => ext.report.shown \in {"error", "success"}

\* C11: when the structured extraction fails the caller receives an explicit
\* failure value, which tells a step without usable output from a malformed
\* payload, and every outcome of the step is reported to the user as an
\* error or as a success.
C11_ExplicitFailureReported ==
    /\ C11_FailureIsExplicit
    /\ C11_KindsDistinguished
    /\ C11_OutcomeReported

====
